---- MODULE Spec2Model ----
(***************************************************************************)
(* Verification model of the utcore geometry toolkit:                      *)
(*   - reconstruct3DPoints (src/utCalibration/3DPointReconstruction.cpp),  *)
(*     which builds an epipolar cost matrix, solves the assignment with    *)
(*     Math::Graph::Munkres and triangulates the matched pairs;            *)
(*   - Math::Graph::Munkres (utMath/Graph/Munkres.h is not among the       *)
(*     sources; it is modelled from section 4.4 of the specification as    *)
(*     the classical six-step primal-dual method on the padded square);    *)
(*   - the RANSAC engine and its tooltip Estimator/Evaluator               *)
(*     (src/utAlgorithm/ToolTip/Ransac.h; the engine itself,               *)
(*     utMath/Optimization/Ransac.h, is modelled from section 4.1).        *)
(* Vectors and matrices are functions over 0..n-1, as in the C++ code.     *)
(***************************************************************************)
EXTENDS Integers, Sequences, FiniteSets, TLC

(***************************************************************************)
(* Bounds of the model.                                                    *)
(***************************************************************************)
\* largest number of rows / columns of a directly supplied cost matrix
MaxDim == 3
\* largest number of cells (rows * columns) of a directly supplied cost matrix
MaxCells == 9
\* the "large constant cost" the assignment module pads with
PadCost == 1
\* costs of a directly supplied cost matrix (below, equal to, above PadCost)
Costs == {0, 1, 2}
\* largest length of a point list handed to reconstruct3DPoints
MaxPts == 3
\* largest number of observations handed to ransac
MaxObs == 4
\* largest iteration cap (maxIterations) of a ransac call
MaxIter == 3
\* largest number of views handed to the N-view get3DPosition
MaxViews == 3
\* largest absolute coordinate of a scene point and of a homogeneous solution
MaxCoord == 2

Idx(n) == 0 .. (n - 1)

Max2(a, b) == IF a > b THEN a ELSE b

Min2(a, b) == IF a < b THEN a ELSE b

SetMin(S) == CHOOSE v \in S : \A w \in S : v <= w

VARIABLES
    mode,        \* "assign": Munkres called on a cost matrix; "pipeline": reconstruct3DPoints
    matrix,      \* the R x C cost matrix handed to Munkres
    m_rows,      \* R
    m_cols,      \* C
    m_step,      \* position of the Munkres object: "new", "1".."6", "solved"
    m_cost,      \* Munkres: the padded square working matrix
    m_mask,      \* Munkres: 0 = plain, 1 = starred zero, 2 = primed zero
    m_rowCover,  \* Munkres: covered rows
    m_colCover,  \* Munkres: covered columns
    m_z0,        \* Munkres: the uncovered primed zero step 5 starts from
    matchList,   \* result of getRowMatchList(), or <<>> before it is taken
    haveMatch,   \* TRUE once getRowMatchList() has returned
    run,         \* number of completed calls with this input (repeated runs)
    prevMatch,   \* matchList of the previous run with the same input
    p1,          \* reconstruct3DPoints: first point list (pointsA)
    p2,          \* reconstruct3DPoints: second point list (pointsB)
    P1,          \* projection matrix of the first camera
    P2,          \* projection matrix of the second camera
    fM,          \* fundamental matrix
    pc,          \* reconstruct3DPoints: "build", "solve", "collect", "done", or
                 \* "out_of_range" (an exception left the call); "-" in mode "assign"
    i,           \* reconstruct3DPoints: loop index of the collecting loop
    list,        \* reconstruct3DPoints: the output sequence
    used,        \* history: the pairs <<i, matchList[i]>> handed to get3DPosition
    prevList,    \* list of the previous run with the same input
    r_obs,       \* ransac: the observations (tool poses), indexed 0..n-1
    r_params,    \* ransac: [setSize, threshold, maxIter]
    r_pc,        \* ransac: "draw", "estimate", "evaluate", "update", "skip", "done"; "-" when not called
    r_iter,      \* ransac: iterations completed
    r_sample,    \* ransac: the indices drawn in this iteration
    r_ok,        \* ransac: what the Estimator returned in this iteration
    r_hyp,       \* ransac: the candidate model (a 6-vector) of this iteration
    r_evals,     \* ransac: Evaluator calls made in this iteration
    r_inl,       \* ransac: inlier indices of this iteration
    r_best,      \* ransac: the best result [model, inliers, count, assigned]
    r_hist,      \* history: one record per completed iteration
    triCall,     \* a call of a triangulation entry point, << >> when there is none
    epiCall,     \* a call of the two epipolar distances, << >> when there is none
    poseCall,    \* a call of poseFromFundamentalMatrix, << >> when there is none
    wrapCall     \* a call of estimatePosition3D_6D, << >> when there is none

\* the fields of a triangulation call
t_entry == triCall.entry        \* "two", "nview" or "residual": the entry point

t_P == triCall.P                \* the projection matrices

t_pts == triCall.pts            \* the image points

t_flag == triCall.flag          \* the refinement flag

t_pRes == triCall.pRes          \* whether pResidual is a non-null pointer

t_pc == triCall.pc              \* "entry", "impl", "build", "svd", "sign", "dehom", "gate", "refine", "done", "thrown"

t_A == triCall.A                \* the matrix handed to gesvd

t_info == triCall.info          \* the return code of gesvd

t_vec == triCall.vec            \* the last row of Vt, and vec in the N-view solve

t_scan == triCall.scan          \* cameras examined by the sign loop

t_dlt == triCall.dlt            \* the point the linear solve returned

t_result == triCall.result      \* the point returned

t_residual == triCall.residual  \* the double pResidual points to

t_err == triCall.err            \* the message of the exception that left the call

t_log == triCall.log            \* history: the calls made (gesvd, negation, levenbergMarquardt)

\* the fields of a call of the epipolar distances
e_fM == epiCall.fM              \* the fundamental matrix

e_from == epiCall.from          \* the point of the first image

e_to == epiCall.to              \* the point of the second image

e_pc == epiCall.pc              \* "call", "done"

e_cost == epiCall.cost          \* what pointToPointDist returned

e_eval == epiCall.eval          \* what EvaluateFundamentalMatrix returned

\* the fields of a call of poseFromFundamentalMatrix
q_fM == poseCall.fM             \* the fundamental matrix

q_x == poseCall.x               \* the known point in the first image

q_x_ == poseCall.x_             \* the known point in the second image

q_pc == poseCall.pc             \* "decode", "triangulate", "select", "done", "thrown"

q_cands == poseCall.cands       \* the candidate poses decoded from E

q_tri == poseCall.tri           \* the candidates tested, each with the outcome of its test

q_result == poseCall.result     \* the pose returned

q_err == poseCall.err           \* the kind of the failure

q_truth == poseCall.truth       \* history: the pose and the scene point the input was made from

\* the fields of a call of estimatePosition3D_6D
w_pc == wrapCall.pc             \* "running", "returned"

w_rv == wrapCall.rv             \* resultVector as read after ransac returned

w_pw == wrapCall.pw             \* the caller's pw

w_pm == wrapCall.pm             \* the caller's pm

w_ret == wrapCall.ret           \* the value returned

mvars == <<mode, matrix, m_rows, m_cols, m_step, m_cost, m_mask, m_rowCover,
           m_colCover, m_z0, matchList, haveMatch, run, prevMatch>>

\* the arguments of reconstruct3DPoints
inputs == <<p1, p2, P1, P2, fM>>

pvars == <<p1, p2, P1, P2, fM, pc, i, list, used, prevList>>

rvars == <<r_obs, r_params, r_pc, r_iter, r_sample, r_ok, r_hyp, r_evals, r_inl,
           r_best, r_hist>>

tvars == <<triCall>>

\* the variables of the calls modelled besides the assignment, the pipeline
\* and the RANSAC engine
evars == <<epiCall>>

qvars == <<poseCall>>

wvars == <<wrapCall>>

ovars == <<tvars, evars, qvars, wvars>>

vars == <<mvars, pvars, rvars, ovars>>

(***************************************************************************)
(* Math::Graph::Munkres, from section 4.4: pad to a square with a large    *)
(* constant, then the six steps of the primal-dual method, every choice    *)
(* taken in row-major order (stable tie-breaking).                         *)
(***************************************************************************)
MSize == Max2(m_rows, m_cols)

\* the constructor: copy the matrix into a square, padding with PadCost
PadMatrix(mat, R, C) ==
    [r \in Idx(Max2(R, C)) |->
        [c \in Idx(Max2(R, C)) |->
            IF r < R /\ c < C THEN mat[r][c] ELSE PadCost]]

NoMask(n) == [r \in Idx(n) |-> [c \in Idx(n) |-> 0]]

MunkresConstruct ==
    /\ m_step = "new"
    /\ m_cost' = PadMatrix(matrix, m_rows, m_cols)
    /\ m_mask' = NoMask(MSize)
    /\ m_rowCover' = {}
    /\ m_colCover' = {}
    /\ m_z0' = <<0, 0>>
    /\ m_step' = "1"
    /\ UNCHANGED <<mode, matrix, m_rows, m_cols, matchList, haveMatch, run, prevMatch, pvars, rvars, ovars>>

\* step 1: subtract the row minimum from every row
RowMin(M, r, n) == SetMin({M[r][c] : c \in Idx(n)})

ReduceRows(M, n) == [r \in Idx(n) |-> [c \in Idx(n) |-> M[r][c] - RowMin(M, r, n)]]

MunkresStep1 ==
    /\ m_step = "1"
    /\ m_cost' = ReduceRows(m_cost, MSize)
    /\ m_step' = "2"
    /\ UNCHANGED <<mode, matrix, m_rows, m_cols, m_mask, m_rowCover, m_colCover,
                   m_z0, matchList, haveMatch, run, prevMatch, pvars, rvars, ovars>>

\* step 2: walk the cells in row-major order and star every zero whose row
\* and column hold no star yet
HasStarInRow(mask, n, r) == \E c \in Idx(n) : mask[r][c] = 1

HasStarInCol(mask, n, c) == \E r \in Idx(n) : mask[r][c] = 1

RECURSIVE StarZeros(_, _, _, _)
StarZeros(M, n, k, mask) ==
    IF k >= n * n THEN mask
    ELSE LET r == k \div n
             c == k % n
         IN  IF M[r][c] = 0 /\ ~HasStarInRow(mask, n, r) /\ ~HasStarInCol(mask, n, c)
             THEN StarZeros(M, n, k + 1, [mask EXCEPT ![r][c] = 1])
             ELSE StarZeros(M, n, k + 1, mask)

MunkresStep2 ==
    /\ m_step = "2"
    /\ m_mask' = StarZeros(m_cost, MSize, 0, m_mask)
    /\ m_step' = "3"
    /\ UNCHANGED <<mode, matrix, m_rows, m_cols, m_cost, m_rowCover, m_colCover,
                   m_z0, matchList, haveMatch, run, prevMatch, pvars, rvars, ovars>>

\* step 3: cover every column holding a star; all columns covered = solved
StarredCols(mask, n) == {c \in Idx(n) : HasStarInCol(mask, n, c)}

MunkresStep3 ==
    /\ m_step = "3"
    /\ m_colCover' = StarredCols(m_mask, MSize)
    /\ m_step' = IF Cardinality(StarredCols(m_mask, MSize)) >= MSize THEN "solved" ELSE "4"
    /\ UNCHANGED <<mode, matrix, m_rows, m_cols, m_cost, m_mask, m_rowCover,
                   m_z0, matchList, haveMatch, run, prevMatch, pvars, rvars, ovars>>

\* step 4: prime the first uncovered zero; with a star in its row cover the
\* row and uncover the star's column, otherwise augment from it (step 5);
\* with no uncovered zero left adjust the matrix (step 6)
UncoveredZeros(M, n, rc, cc) ==
    {z \in Idx(n) \X Idx(n) : M[z[1]][z[2]] = 0 /\ z[1] \notin rc /\ z[2] \notin cc}

FirstCell_perRun(Z) ==
    IF run = 0
    THEN CHOOSE z \in Z : \A w \in Z : z[1] < w[1] \/ (z[1] = w[1] /\ z[2] <= w[2])
    ELSE CHOOSE z \in Z : \A w \in Z : z[1] > w[1] \/ (z[1] = w[1] /\ z[2] >= w[2])

FirstCell(Z) ==
    CHOOSE z \in Z : \A w \in Z : z[1] < w[1] \/ (z[1] = w[1] /\ z[2] <= w[2])

StarColOfRow(mask, n, r) == CHOOSE c \in Idx(n) : mask[r][c] = 1

MunkresStep4 ==
    /\ m_step = "4"
    /\ LET Z == UncoveredZeros(m_cost, MSize, m_rowCover, m_colCover)
       IN  IF Z = {}
           THEN /\ m_step' = "6"
                /\ UNCHANGED <<m_mask, m_rowCover, m_colCover, m_z0>>
           ELSE LET z == FirstCell(Z)
                IN  /\ m_mask' = [m_mask EXCEPT ![z[1]][z[2]] = 2]
                    /\ IF HasStarInRow(m_mask, MSize, z[1])
                       THEN /\ m_rowCover' = m_rowCover \cup {z[1]}
                            /\ m_colCover' = m_colCover \ {StarColOfRow(m_mask, MSize, z[1])}
                            /\ m_step' = "4"
                            /\ UNCHANGED m_z0
                       ELSE /\ m_z0' = z
                            /\ m_step' = "5"
                            /\ UNCHANGED <<m_rowCover, m_colCover>>
    /\ UNCHANGED <<mode, matrix, m_rows, m_cols, m_cost, matchList, haveMatch, run, prevMatch, pvars, rvars, ovars>>

\* step 5: the alternating path of primed and starred zeros from z0; unstar
\* its stars, star its primes, erase every prime, uncover every line
RECURSIVE AugPath(_, _, _)
AugPath(mask, n, path) ==
    LET z == path[Len(path)]
    IN  IF ~HasStarInCol(mask, n, z[2]) THEN path
        ELSE LET r1 == CHOOSE r \in Idx(n) : mask[r][z[2]] = 1
                 c1 == CHOOSE c \in Idx(n) : mask[r1][c] = 2
             IN  AugPath(mask, n, path \o << <<r1, z[2]>>, <<r1, c1>> >>)

FlipPath(mask, n, path) ==
    LET onPath == {path[k] : k \in 1 .. Len(path)}
    IN  [r \in Idx(n) |-> [c \in Idx(n) |->
            IF <<r, c>> \in onPath
            THEN (IF mask[r][c] = 1 THEN 0 ELSE 1)
            ELSE (IF mask[r][c] = 2 THEN 0 ELSE mask[r][c])]]

MunkresStep5 ==
    /\ m_step = "5"
    /\ m_mask' = FlipPath(m_mask, MSize, AugPath(m_mask, MSize, <<m_z0>>))
    /\ m_rowCover' = {}
    /\ m_colCover' = {}
    /\ m_step' = "3"
    /\ UNCHANGED <<mode, matrix, m_rows, m_cols, m_cost, m_z0, matchList,
                   haveMatch, run, prevMatch, pvars, rvars, ovars>>

\* step 6: add the smallest uncovered value to every covered row and
\* subtract it from every uncovered column
SetMax(S) == CHOOSE v \in S : \A w \in S : v >= w

MinUncovered_max(M, n, rc, cc) ==
    SetMax({M[r][c] : r \in Idx(n) \ rc, c \in Idx(n) \ cc})

MinUncovered(M, n, rc, cc) ==
    SetMin({M[r][c] : r \in Idx(n) \ rc, c \in Idx(n) \ cc})

AdjustMatrix(M, n, rc, cc) ==
    LET d == MinUncovered(M, n, rc, cc)
    IN  [r \in Idx(n) |-> [c \in Idx(n) |->
            M[r][c] + (IF r \in rc THEN d ELSE 0) - (IF c \notin cc THEN d ELSE 0)]]

MunkresStep6 ==
    /\ m_step = "6"
    /\ m_cost' = AdjustMatrix(m_cost, MSize, m_rowCover, m_colCover)
    /\ m_step' = "4"
    /\ UNCHANGED <<mode, matrix, m_rows, m_cols, m_mask, m_rowCover, m_colCover,
                   m_z0, matchList, haveMatch, run, prevMatch, pvars, rvars, ovars>>

\* m.solve(): the steps above, run to "solved"
MunkresSolve ==
    \/ MunkresConstruct
    \/ MunkresStep1
    \/ MunkresStep2
    \/ MunkresStep3
    \/ MunkresStep4
    \/ MunkresStep5
    \/ MunkresStep6

\* getRowMatchList(): for each original row the column of its star in the
\* padded square; a column index >= C lies in the padded region
RowMatchList(mask, n, R) == [r \in Idx(R) |-> StarColOfRow(mask, n, r)]

\* line 252 of reconstruct3DPointsImpl; in mode "assign" the direct caller
GetRowMatchList ==
    /\ m_step = "solved"
    /\ ~haveMatch
    /\ matchList' = RowMatchList(m_mask, MSize, m_rows)
    /\ haveMatch' = TRUE
    /\ pc' = IF mode = "pipeline" THEN "collect" ELSE pc
    /\ UNCHANGED <<mode, matrix, m_rows, m_cols, m_step, m_cost, m_mask, m_rowCover,
                   m_colCover, m_z0, run, prevMatch, inputs, i, list, used, prevList, rvars, ovars>>

(***************************************************************************)
(* 3DPointReconstruction.cpp                                               *)
(***************************************************************************)
Vec0(s) == [k \in Idx(Len(s)) |-> s[k + 1]]

Mat0(s) == [r \in Idx(Len(s)) |-> Vec0(s[r + 1])]

\* ublas::prod( fM, from )
Prod33(M, v) == [k \in Idx(3) |-> M[k][0] * v[0] + M[k][1] * v[1] + M[k][2] * v[2]]

\* the floating-point quotient; every quotient the model forms is integral
FDiv(num, den) == num \div den

\* the operands of the division pointToPointDistImp returns
DistOperands(from, to, F) ==
    LET from_ == Prod33(F, from)
        term == from_[0] * to[0] + from_[1] * to[1] + from_[2]
    IN  [num |-> term * term, den |-> from_[0] * from_[0] + from_[1] * from_[1]]

pointToPointDistImp(from, to, F) ==
    FDiv(DistOperands(from, to, F).num, DistOperands(from, to, F).den)

\* the overload on 2-vectors: both points are made homogeneous
pointToPointDist(from, to, F) ==
    LET from_ == Vec0(<<from[0], from[1], 1>>)
        to_ == Vec0(<<to[0], to[1], 1>>)
    IN  pointToPointDistImp(from_, to_, F)

\* x * row( P, 2 ) - row( P, k )
DltRow(P, xk, k) == [c \in Idx(4) |-> xk * P[2][c] - P[k][c]]

\* lapack::gesvd( 'N', 'A', A, s1, U, Vt ): the last row of Vt is the right
\* singular vector of the smallest singular value, a function of A; the
\* model keeps it as a term over A
gesvdVt3(A) == [vt3 |-> A]

\* ( Vt(3,0) / Vt(3,3), Vt(3,1) / Vt(3,3), Vt(3,2) / Vt(3,3) )
Dehomogenize(v) == [dehom |-> v]

\* two-view get3DPositionImpl and its get3DPosition wrappers
get3DPosition(Pa, Pb, x, x_) ==
    LET A == Vec0(<<DltRow(Pa, x[0], 0), DltRow(Pa, x[1], 1),
                    DltRow(Pb, x_[0], 0), DltRow(Pb, x_[1], 1)>>)
    IN  Dehomogenize(gesvdVt3(A))

p1Size == IF p1 = << >> THEN 0 ELSE Cardinality(DOMAIN p1)

p2Size == IF p2 = << >> THEN 0 ELSE Cardinality(DOMAIN p2)

\* lines 239-248: the match matrix
BuildMatrix ==
    /\ mode = "pipeline"
    /\ pc = "build"
    /\ matrix' = [row \in Idx(p1Size) |->
                    [col \in Idx(p2Size) |-> pointToPointDist(p1[row], p2[col], fM)]]
    /\ m_rows' = p1Size
    /\ m_cols' = p2Size
    /\ m_step' = "new"
    /\ pc' = "solve"
    /\ UNCHANGED <<mode, m_cost, m_mask, m_rowCover, m_colCover, m_z0, matchList,
                   haveMatch, run, prevMatch, inputs, i, list, used, prevList, rvars, ovars>>

\* std::vector::at( k ) throws std::out_of_range unless k < size()
InRange(v, k) == v # << >> /\ k \in DOMAIN v

\* line 258: matchList.at( i ) < p2Size
IsMatched_le(ml, k, n2) == ml[k] <= n2

IsMatched_rows(ml, k, n2) == ml[k] < Cardinality(DOMAIN ml)

IsMatched(ml, k, n2) == ml[k] < n2

\* lines 256-262: one iteration of the collecting loop
Collect_keepUnmatched ==
    /\ mode = "pipeline"
    /\ pc = "collect"
    /\ i < p1Size
    /\ InRange(matchList, i)
    /\ IF IsMatched(matchList, i, p2Size)
       THEN /\ InRange(p2, matchList[i])
            /\ list' = Append(list, get3DPosition(P1, P2, p1[i], p2[matchList[i]]))
            /\ used' = used \cup {<<i, matchList[i]>>}
       ELSE /\ list' = Append(list, Vec0(<<0, 0, 0>>))
            /\ UNCHANGED used
    /\ i' = i + 1
    /\ UNCHANGED <<mvars, inputs, pc, prevList, rvars, ovars>>

Collect ==
    /\ mode = "pipeline"
    /\ pc = "collect"
    /\ i < p1Size
    /\ IF ~InRange(matchList, i)
       THEN /\ pc' = "out_of_range"
            /\ UNCHANGED <<list, used, i>>
       ELSE IF IsMatched(matchList, i, p2Size)
       THEN IF ~InRange(p2, matchList[i])
            THEN /\ pc' = "out_of_range"
                 /\ UNCHANGED <<list, used, i>>
            ELSE /\ list' = Append(list, get3DPosition(P1, P2, p1[i], p2[matchList[i]]))
                 /\ used' = used \cup {<<i, matchList[i]>>}
                 /\ i' = i + 1
                 /\ UNCHANGED pc
       ELSE /\ i' = i + 1
            /\ UNCHANGED <<list, used, pc>>
    /\ UNCHANGED <<mvars, inputs, prevList, rvars, ovars>>

\* line 264
Return ==
    /\ mode = "pipeline"
    /\ pc = "collect"
    /\ i >= p1Size
    /\ pc' = "done"
    /\ UNCHANGED <<mvars, inputs, i, list, used, prevList, rvars, ovars>>

(***************************************************************************)
(* utAlgorithm/ToolTip/Ransac.h: the tooltip Estimator and Evaluator, and  *)
(* the RANSAC engine Math::Optimization::ransac they are handed to         *)
(* (section 4.1).  Tool poses are rotations by 0 or 180 degrees about the  *)
(* z axis with a translation along x, so every quantity is an integer.     *)
(***************************************************************************)
\* Math::Pose * Math::Vector< T, 3 >: s = 1 is the identity rotation, s = -1
\* the half turn about z; t is the translation along x
PoseApply(p, v) ==
    [k \in Idx(3) |-> IF k = 0 THEN p.s * v[0] + p.t ELSE IF k = 1 THEN p.s * v[1] ELSE v[2]]

\* the square root of q rounded down, searched from d upwards
RECURSIVE Isqrt(_, _)
Isqrt(q, d) == IF (d + 1) * (d + 1) > q THEN d ELSE Isqrt(q, d + 1)

\* Math::norm_2: the root rounded down, which is exact on the vectors
\* parallel to the x axis and compares with an integer threshold as the
\* root itself does
Norm2(v) == Isqrt(v[0] * v[0] + v[1] * v[1] + v[2] * v[2], 0)

RECURSIVE SumT(_, _)
SumT(poses, K) ==
    IF K = {} THEN 0
    ELSE LET k == CHOOSE k \in K : TRUE
         IN  poses[k].t + SumT(poses, K \ {k})

\* estimatePosition3D_6D( pw, poses, pm ) of TipCalibration.h: the least
\* squares solution of  pose * pm = pw  over the given poses; it fails on a
\* rank-deficient system (all poses with the same rotation)
TipCalibration(poses) ==
    LET plus == {k \in DOMAIN poses : poses[k].s = 1}
        minus == {k \in DOMAIN poses : poses[k].s = -1}
    IN  IF plus = {} \/ minus = {}
        THEN [ok |-> FALSE, pw |-> [k \in Idx(3) |-> 0], pm |-> [k \in Idx(3) |-> 0]]
        ELSE LET a == FDiv(SumT(poses, plus), Cardinality(plus))
                 b == FDiv(SumT(poses, minus), Cardinality(minus))
             IN  [ok |-> TRUE,
                  pw |-> [k \in Idx(3) |-> IF k = 0 THEN FDiv(a + b, 2) ELSE 0],
                  pm |-> [k \in Idx(3) |-> IF k = 0 THEN FDiv(b - a, 2) ELSE 0]]

\* Ransac< T >::Estimator::operator(): resultVector is written only when the
\* calibration succeeded
Estimator_swapped(resultVector, poses) ==
    LET c == TipCalibration(poses)
    IN  IF ~c.ok
        THEN [ret |-> FALSE, resultVector |-> resultVector]
        ELSE [ret |-> TRUE,
              resultVector |-> [k \in Idx(6) |-> IF k < 3 THEN c.pm[k] ELSE c.pw[k - 3]]]

Estimator(resultVector, poses) ==
    LET c == TipCalibration(poses)
    IN  IF ~c.ok
        THEN [ret |-> FALSE, resultVector |-> resultVector]
        ELSE [ret |-> TRUE,
              resultVector |-> [k \in Idx(6) |-> IF k < 3 THEN c.pw[k] ELSE c.pm[k - 3]]]

\* Ransac< T >::Evaluator::operator()
Evaluator_swapped(toolTip, p) ==
    LET tip == PoseApply(p, [k \in Idx(3) |-> toolTip[k]])
        offset == [k \in Idx(3) |-> toolTip[k + 3]]
        diff == [k \in Idx(3) |-> offset[k] - tip[k]]
    IN  Norm2(diff)

Evaluator(toolTip, p) ==
    LET tip == PoseApply(p, [k \in Idx(3) |-> toolTip[k + 3]])
        offset == [k \in Idx(3) |-> toolTip[k]]
        diff == [k \in Idx(3) |-> offset[k] - tip[k]]
    IN  Norm2(diff)

r_n == Cardinality(DOMAIN r_obs)

\* the RNG: k distinct indices from [0, n), in the order drawn
Samples_withReplacement(n, k) == [Idx(k) -> Idx(n)]

Samples(n, k) == {sq \in [Idx(k) -> Idx(n)] : \A a, b \in Idx(k) : a # b => sq[a] # sq[b]}

\* draw setSize distinct observations
RansacDraw ==
    /\ r_pc = "draw"
    /\ r_iter < r_params.maxIter
    /\ \E sq \in Samples(r_n, r_params.setSize) :
          /\ r_sample' = sq
          /\ r_pc' = "estimate"
    /\ UNCHANGED <<r_obs, r_params, r_iter, r_ok, r_hyp, r_evals, r_inl, r_best, r_hist, mvars, pvars, ovars>>

\* fewer observations than setSize: no sample of distinct observations
\* exists, the iteration yields no model
RansacNoSample ==
    /\ r_pc = "draw"
    /\ r_iter < r_params.maxIter
    /\ Samples(r_n, r_params.setSize) = {}
    /\ r_sample' = << >>
    /\ r_ok' = FALSE
    /\ r_pc' = "skip"
    /\ UNCHANGED <<r_obs, r_params, r_iter, r_hyp, r_evals, r_inl, r_best, r_hist, mvars, pvars, ovars>>

\* a sample the Estimator reports degenerate is skipped
AfterEstimate_evaluate(ret) == "evaluate"

AfterEstimate(ret) == IF ret THEN "evaluate" ELSE "skip"

\* invoke the Estimator on the sample
RansacEstimate ==
    /\ r_pc = "estimate"
    /\ \E e \in {Estimator(r_hyp, [j \in Idx(r_params.setSize) |-> r_obs[r_sample[j]]])} :
           /\ r_ok' = e.ret
           /\ r_hyp' = e.resultVector
           /\ r_pc' = AfterEstimate(e.ret)
    /\ UNCHANGED <<r_obs, r_params, r_iter, r_sample, r_evals, r_inl, r_best, r_hist, mvars, pvars, ovars>>

\* invoke the Evaluator against every observation of the full set
Inliers(model, obs, threshold) ==
    {j \in DOMAIN obs : Evaluator(model, obs[j]) < threshold}

RansacEvaluate ==
    /\ r_pc = "evaluate"
    /\ r_inl' = Inliers(r_hyp, r_obs, r_params.threshold)
    /\ r_evals' = r_n
    /\ r_pc' = "update"
    /\ UNCHANGED <<r_obs, r_params, r_iter, r_sample, r_ok, r_hyp, r_best, r_hist, mvars, pvars, ovars>>

\* replace the best result if the inlier count exceeds the best seen so far
Better_orEqual(count, best) == count >= best.count

Better(count, best) == count > best.count

KeepBest(best, model, inl) ==
    IF Better(Cardinality(inl), best)
    THEN [model |-> model, inliers |-> inl, count |-> Cardinality(inl), assigned |-> TRUE]
    ELSE best

RansacUpdate ==
    /\ r_pc = "update"
    /\ r_best' = KeepBest(r_best, r_hyp, r_inl)
    /\ r_hist' = Append(r_hist, [ok |-> r_ok, model |-> r_hyp,
                                 evals |-> r_evals, before |-> r_best, after |-> r_best'])
    /\ r_iter' = r_iter + 1
    /\ r_evals' = 0
    /\ r_inl' = {}
    /\ r_pc' = "draw"
    /\ UNCHANGED <<r_obs, r_params, r_sample, r_ok, r_hyp, mvars, pvars, ovars>>

\* a degenerate sample: the iteration is skipped
RansacSkip ==
    /\ r_pc = "skip"
    /\ r_hist' = Append(r_hist, [ok |-> FALSE, model |-> r_hyp,
                                 evals |-> r_evals, before |-> r_best, after |-> r_best])
    /\ r_iter' = r_iter + 1
    /\ r_pc' = "draw"
    /\ UNCHANGED <<r_obs, r_params, r_sample, r_ok, r_hyp, r_evals, r_inl, r_best, mvars, pvars, ovars>>

\* the iteration cap is the only bound
Exhausted_orAllInliers == r_iter >= r_params.maxIter \/ (r_n > 0 /\ r_best.count = r_n)

Exhausted == r_iter >= r_params.maxIter

RansacFinish ==
    /\ r_pc = "draw"
    /\ Exhausted
    /\ r_pc' = "done"
    /\ UNCHANGED <<r_obs, r_params, r_iter, r_sample, r_ok, r_hyp, r_evals, r_inl,
                   r_best, r_hist, mvars, pvars, ovars>>

\* what reading a Math::Vector< double, 6 > that was never assigned may give
Indeterminate == {Vec0(<<7, 7, 7, 7, 7, 7>>), Vec0(<<0, 0, 0, 0, 0, 0>>)}

\* return ( inlier > 0 )
ReportsSuccess_always(inlier) == inlier >= 0

ReportsSuccess(inlier) == inlier > 0

\* estimatePosition3D_6D( pw, poses, pm, params ) after ransac has returned:
\* pw and pm are assigned from resultVector, whatever the count
WrapperReturn ==
    /\ r_pc = "done"
    /\ w_pc = "running"
    /\ \E rv \in (IF r_best.assigned THEN {r_best.model} ELSE Indeterminate) :
          wrapCall' = [pc |-> "returned",
                       rv |-> rv,
                       pw |-> [k \in Idx(3) |-> rv[k]],
                       pm |-> [k \in Idx(3) |-> rv[k + 3]],
                       ret |-> ReportsSuccess(r_best.count)]
    /\ UNCHANGED <<mvars, pvars, rvars, tvars, evars, qvars>>

(***************************************************************************)
(* 3DPointReconstruction.cpp: the triangulation entry points, step by      *)
(* step: the two-view get3DPosition, the N-view get3DPosition and          *)
(* get3DPositionWithResidual.                                              *)
(***************************************************************************)
NumViews == IF t_P = << >> THEN 0 ELSE Cardinality(DOMAIN t_P)

NumPoints == IF t_pts = << >> THEN 0 ELSE Cardinality(DOMAIN t_pts)

\* the messages of the exceptions UBITRACK_THROW raises
ErrSizes == "no equal amount of camera projections and corresponding points."

ErrViews == "3d point estimation requires at least 2 matrices and 2 image points."

ErrSvd == "SVD for point reconstruction failed."

\* P.size() != points.size() of the entry points on lists; the two-view
\* entry point has no test and goes straight to its implementation
TriEntry ==
    /\ t_pc = "entry"
    /\ triCall' = IF t_entry = "two"
                  THEN [triCall EXCEPT !.pc = "build"]
                  ELSE IF NumViews # NumPoints
                       THEN [triCall EXCEPT !.pc = "thrown", !.err = ErrSizes]
                       ELSE [triCall EXCEPT !.pc = "impl"]
    /\ UNCHANGED <<mvars, pvars, rvars, evars, qvars, wvars>>

\* N-view get3DPositionImpl: n < 2
TooFewViews_one(n) == n < 1

TooFewViews(n) == n < 2

TriCheckN ==
    /\ t_pc = "impl"
    /\ triCall' = IF TooFewViews(NumViews)
                  THEN [triCall EXCEPT !.pc = "thrown", !.err = ErrViews]
                  ELSE [triCall EXCEPT !.pc = "build"]
    /\ UNCHANGED <<mvars, pvars, rvars, evars, qvars, wvars>>

\* [ x, y, 1 ]_x as the code writes its rows
Skew(pt) ==
    Mat0(<< <<0, 1, -pt[1]>>, <<-1, 0, pt[0]>>, <<pt[1], -pt[0], 0>> >>)

\* ublas::prod( skew, P ): a 3 x 4 block
SkewProd(sk, P) ==
    [r \in Idx(3) |-> [c \in Idx(4) |-> sk[r][0] * P[0][c] + sk[r][1] * P[1][c] + sk[r][2] * P[2][c]]]

\* the ( 3 n ) x 4 matrix of the N-view solve: block i is rows 3 i .. 3 i + 2
StackedA(Ps, pts, n) ==
    [r \in Idx(3 * n) |-> SkewProd(Skew(pts[r \div 3]), Ps[r \div 3])[r % 3]]

\* the 4 x 4 matrix of the two-view solve
TwoViewA(Pa, Pb, x, x_) ==
    Vec0(<<DltRow(Pa, x[0], 0), DltRow(Pa, x[1], 1), DltRow(Pb, x_[0], 0), DltRow(Pb, x_[1], 1)>>)

TriBuild ==
    /\ t_pc = "build"
    /\ triCall' = [triCall EXCEPT
                      !.A = IF t_entry = "two"
                            THEN TwoViewA(t_P[0], t_P[1], t_pts[0], t_pts[1])
                            ELSE StackedA(t_P, t_pts, NumViews),
                      !.pc = "svd"]
    /\ UNCHANGED <<mvars, pvars, rvars, evars, qvars, wvars>>

\* homogeneous 4-vectors, scaled so that the fourth component is 1 or -1
HomVecs ==
    {v \in [Idx(4) -> (-MaxCoord) .. MaxCoord] : v[3] \in {-1, 1}}

\* the last row of Vt after a gesvd that converged: a right singular vector
\* of the singular value 0, of either sign
NullVectors(A) ==
    {v \in HomVecs :
        \A r \in DOMAIN A : A[r][0] * v[0] + A[r][1] * v[1] + A[r][2] * v[2] + A[r][3] * v[3] = 0}

\* what Vt may hold after a gesvd that did not converge
UnspecifiedVt == {Vec0(<<7, 7, 7, 1>>), Vec0(<<7, -7, 7, -1>>)}

\* the return codes of lapack::gesvd: 0, or the number of superdiagonals
\* that did not converge
GesvdInfo == {0, 1}

\* lapack::gesvd( 'N', 'A', A, s, U, Vt ) and what the caller does with its
\* return code: the N-view implementation throws on a nonzero code, the
\* two-view implementation does not look at it
IgnoresInfo_never(entry) == FALSE

IgnoresInfo(entry) == entry = "two"

TriSvd ==
    /\ t_pc = "svd"
    /\ \E info \in GesvdInfo :
          \E vt \in (IF info = 0 THEN NullVectors(t_A) ELSE UnspecifiedVt) :
              triCall' =
                  IF info # 0 /\ ~IgnoresInfo(t_entry)
                  THEN [triCall EXCEPT !.info = info,
                                       !.log = Append(@, [call |-> "gesvd", info |-> info]),
                                       !.pc = "thrown",
                                       !.err = ErrSvd]
                  ELSE [triCall EXCEPT !.info = info,
                                       !.log = Append(@, [call |-> "gesvd", info |-> info]),
                                       !.pc = IF t_entry = "two" THEN "dehom" ELSE "sign",
                                       !.vec = vt]
    /\ UNCHANGED <<mvars, pvars, rvars, evars, qvars, wvars>>

\* the third row of a projection matrix applied to a homogeneous vector
Depth(P, v) == P[2][0] * v[0] + P[2][1] * v[1] + P[2][2] * v[2] + P[2][3] * v[3]

\* the test of the sign loop
IsBehind_orOn(s) == 0 >= s

IsBehind(s) == 0 > s

\* one pass of the loop that checks the direction of the point: negate and
\* leave the loop at the first camera with a negative value
TriSign ==
    /\ t_pc = "sign"
    /\ triCall' =
          IF t_scan < NumViews
          THEN IF IsBehind(Depth(t_P[t_scan], t_vec))
               THEN [triCall EXCEPT !.scan = @ + 1,
                                    !.vec = [k \in Idx(4) |-> -t_vec[k]],
                                    !.log = Append(@, [call |-> "negate", at |-> t_scan]),
                                    !.pc = "dehom"]
               ELSE [triCall EXCEPT !.scan = @ + 1]
          ELSE [triCall EXCEPT !.pc = "dehom"]
    /\ UNCHANGED <<mvars, pvars, rvars, evars, qvars, wvars>>

\* vec /= vec( 3 ) and the first three components
DivideByW(v) == [k \in Idx(3) |-> FDiv(v[k], v[3])]

\* the linear solve returns; the two-view entry point returns its result
TriDehom ==
    /\ t_pc = "dehom"
    /\ triCall' =
          IF t_entry = "two"
          THEN [triCall EXCEPT !.dlt = DivideByW(t_vec),
                               !.result = [pt |-> DivideByW(t_vec), by |-> "dlt"],
                               !.pc = "done"]
          ELSE [triCall EXCEPT !.dlt = DivideByW(t_vec), !.pc = "gate"]
    /\ UNCHANGED <<mvars, pvars, rvars, evars, qvars, wvars>>

\* if( flag > 0 )
Refines_always(flag) == TRUE

Refines(flag) == flag > 0

TriGate ==
    /\ t_pc = "gate"
    /\ triCall' =
          IF Refines(t_flag)
          THEN [triCall EXCEPT !.pc = "refine"]
          ELSE [triCall EXCEPT !.pc = "done", !.result = [pt |-> t_dlt, by |-> "dlt"]]
    /\ UNCHANGED <<mvars, pvars, rvars, evars, qvars, wvars>>

\* Math::OptTerminate( 200, 1e-6 )
LmMaxIter == 200

LmTolerance == "1e-6"

\* the third homogeneous coordinate of the image of a scene point
ImageW(P, X) == P[2][0] * X[0] + P[2][1] * X[1] + P[2][2] * X[2] + P[2][3]

\* the reprojection of a point by one camera: ( u / w, v / w )
Project(P, X) ==
    LET h == [k \in Idx(3) |-> P[k][0] * X[0] + P[k][1] * X[1] + P[k][2] * X[2] + P[k][3]]
    IN  [k \in Idx(2) |-> FDiv(h[k], h[2])]

\* Math::levenbergMarquardt: a parameter vector whose reprojections equal
\* the measurements has residual 0 and is returned as it is; any other is
\* kept as a term over the call
levenbergMarquardt(Ps, pts, parameters) ==
    IF \A j \in DOMAIN Ps : ImageW(Ps[j], parameters) # 0 /\ Project(Ps[j], parameters) = pts[j]
    THEN [parameters |-> parameters, residual |-> 0]
    ELSE [parameters |-> [lm |-> parameters], residual |-> [lm |-> parameters]]

\* whether optimize3DPositionImpl is handed the caller's pResidual: only
\* get3DPositionWithResidual passes it on, and only a non-null one is written
WritesResidual_never(entry, pRes) == FALSE

WritesResidual(entry, pRes) == entry = "residual" /\ pRes

\* optimize3DPositionImpl
TriRefine ==
    /\ t_pc = "refine"
    /\ \E lm \in {levenbergMarquardt(t_P, t_pts, t_dlt)} :
          triCall' =
              [triCall EXCEPT
                  !.log = Append(@, [call |-> "levenbergMarquardt", init |-> t_dlt,
                                     maxIter |-> LmMaxIter, tol |-> LmTolerance]),
                  !.result = [pt |-> lm.parameters, by |-> "lm"],
                  !.residual = IF WritesResidual(t_entry, t_pRes)
                               THEN [written |-> TRUE, value |-> lm.residual]
                               ELSE @,
                  !.pc = "done"]
    /\ UNCHANGED <<mvars, pvars, rvars, evars, qvars, wvars>>

(***************************************************************************)
(* The epipolar distance in its two places: pointToPointDist of            *)
(* 3DPointReconstruction.cpp and the functor EvaluateFundamentalMatrix of  *)
(* FundamentalMatrix.h, on arbitrary operands.                             *)
(***************************************************************************)
RECURSIVE Gcd(_, _)
Gcd(a, b) == IF b = 0 THEN a ELSE Gcd(b, a % b)

\* operator/ on floating-point numbers, kept exact: a fraction in lowest
\* terms with a positive denominator, or nan ( 0 / 0 ) or inf ( x / 0 )
Quotient(num, den) ==
    IF den = 0
    THEN [class |-> IF num = 0 THEN "nan" ELSE "inf", n |-> 0, d |-> 0]
    ELSE LET sg == IF den < 0 THEN -1 ELSE 1
             g == Gcd(Max2(num, -num), Max2(den, -den))
         IN  [class |-> "finite", n |-> (sg * num) \div g, d |-> (sg * den) \div g]

\* EvaluateFundamentalMatrix::operator()
EvaluateFundamentalMatrix_swapped(F, from, to) ==
    LET from_ == [k \in Idx(3) |-> F[k][0] * to[0] + F[k][1] * to[1] + F[k][2]]
        term == from_[0] * from[0] + from_[1] * from[1] + from_[2]
    IN  Quotient(term * term, from_[0] * from_[0] + from_[1] * from_[1])

EvaluateFundamentalMatrix(F, from, to) ==
    LET from_ == [k \in Idx(3) |-> F[k][0] * from[0] + F[k][1] * from[1] + F[k][2]]
        term == from_[0] * to[0] + from_[1] * to[1] + from_[2]
    IN  Quotient(term * term, from_[0] * from_[0] + from_[1] * from_[1])

\* pointToPointDist on 2-vectors with the division kept exact
pointToPointDistExact(from, to, F) ==
    LET o == DistOperands(Vec0(<<from[0], from[1], 1>>), Vec0(<<to[0], to[1], 1>>), F)
    IN  Quotient(o.num, o.den)

\* both functions are applied to the same operands
Measure ==
    /\ e_pc = "call"
    /\ epiCall' = [epiCall EXCEPT
                      !.cost = pointToPointDistExact(e_from, e_to, e_fM),
                      !.eval = EvaluateFundamentalMatrix(e_fM, e_from, e_to),
                      !.pc = "done"]
    /\ UNCHANGED <<mvars, pvars, rvars, tvars, qvars, wvars>>

(***************************************************************************)
(* Pose recovery from a fundamental matrix (poseFromFundamentalMatrix),    *)
(* after section 4.2: the essential matrix, its four candidate poses and   *)
(* the cheirality test on one known correspondence.  Rotations are the     *)
(* rotations that map the coordinate axes onto each other, translations    *)
(* the unit vectors along the axes.                                        *)
(***************************************************************************)
Identity3 == Mat0(<< <<1, 0, 0>>, <<0, 1, 0>>, <<0, 0, 1>> >>)

MatMul33(A, B) ==
    [r \in Idx(3) |-> [c \in Idx(3) |-> A[r][0] * B[0][c] + A[r][1] * B[1][c] + A[r][2] * B[2][c]]]

Transpose33(A) == [r \in Idx(3) |-> [c \in Idx(3) |-> A[c][r]]]

Det33(A) ==
    A[0][0] * (A[1][1] * A[2][2] - A[1][2] * A[2][1])
    - A[0][1] * (A[1][0] * A[2][2] - A[1][2] * A[2][0])
    + A[0][2] * (A[1][0] * A[2][1] - A[1][1] * A[2][0])

\* the orthogonal matrices with entries -1, 0, 1 and determinant 1: one
\* signed entry per row, in distinct columns
Rotations ==
    {R \in {[r \in Idx(3) |-> [c \in Idx(3) |-> IF c = p[r] THEN sg[r] ELSE 0]] :
                p \in {f \in [Idx(3) -> Idx(3)] : f[0] # f[1] /\ f[0] # f[2] /\ f[1] # f[2]},
                sg \in [Idx(3) -> {-1, 1}]} :
        Det33(R) = 1}

UnitAxes ==
    {t \in [Idx(3) -> {-1, 0, 1}] : t[0] * t[0] + t[1] * t[1] + t[2] * t[2] = 1}

\* [ t ]_x
CrossMatrix(t) ==
    Mat0(<< <<0, -t[2], t[1]>>, <<t[2], 0, -t[0]>>, <<-t[1], t[0], 0>> >>)

\* the essential matrix of a pose: E = [ t ]_x R
EssentialOf(R, t) == MatMul33(CrossMatrix(t), R)

\* E = K2^t F K1
EssentialMatrix(F, K1, K2) == MatMul33(MatMul33(Transpose33(K2), F), K1)

\* the poses the decomposition of E yields: those whose essential matrix is
\* E up to sign
Candidates(E) ==
    {c \in [R : Rotations, t : UnitAxes] :
        \/ EssentialOf(c.R, c.t) = E
        \/ EssentialOf(c.R, c.t) = [r \in Idx(3) |-> [k \in Idx(3) |-> -E[r][k]]]}

PoseDecode ==
    /\ q_pc = "decode"
    /\ poseCall' = [poseCall EXCEPT
                       !.cands = Candidates(EssentialMatrix(q_fM, Identity3, Identity3)),
                       !.pc = "triangulate"]
    /\ UNCHANGED <<mvars, pvars, rvars, tvars, evars, wvars>>

\* the projection matrix [ R | t ] of the second camera under a candidate
CameraOf(c) == [r \in Idx(3) |-> [k \in Idx(4) |-> IF k < 3 THEN c.R[r][k] ELSE c.t[r]]]

\* the first camera is the frame of reference: [ 1 | 0 ]
FirstCamera == CameraOf([R |-> Identity3, t |-> [k \in Idx(3) |-> 0]])

\* homogeneous 4-vectors without a common factor; the zero vector stands
\* for a solution outside the range
WideVecs == [Idx(4) -> (-MaxCoord) .. MaxCoord]

ZeroVec == [k \in Idx(4) |-> 0]

Primitive(v) ==
    /\ v # ZeroVec
    /\ Gcd(Gcd(Max2(v[0], -v[0]), Max2(v[1], -v[1])), Gcd(Max2(v[2], -v[2]), Max2(v[3], -v[3]))) = 1

IsSolution(A, v) ==
    \A r \in DOMAIN A : A[r][0] * v[0] + A[r][1] * v[1] + A[r][2] * v[2] + A[r][3] * v[3] = 0

\* the vector orthogonal to three rows of a 4 x 4 matrix: its signed 3 x 3
\* minors
RowTriples == {Vec0(<<0, 1, 2>>), Vec0(<<0, 1, 3>>), Vec0(<<0, 2, 3>>), Vec0(<<1, 2, 3>>)}

KernelOf(A, rs) ==
    [k \in Idx(4) |->
        (IF k % 2 = 0 THEN 1 ELSE -1)
        * Det33([r \in Idx(3) |-> [c \in Idx(3) |-> A[rs[r]][IF c < k THEN c ELSE c + 1]]])]

\* the solutions of a homogeneous 4 x 4 system: of rank 3, the one
\* direction orthogonal to its rows; of lower rank, any vector of the null
\* space (those in range, without a common factor); of rank 4, none
Solutions(A) ==
    UNION {IF ker = {} THEN {v \in WideVecs : IsSolution(A, v) /\ Primitive(v)}
                      ELSE {v \in ker : IsSolution(A, v)} :
              ker \in {{KernelOf(A, rs) : rs \in RowTriples} \ {ZeroVec}}}

\* the solutions of the two-view system of a candidate
TriangulateUnder(c, x, x_) ==
    UNION {IF sol = {} THEN {ZeroVec} ELSE sol :
              sol \in {Solutions(TwoViewA(FirstCamera, CameraOf(c), x, x_))}}

\* positive depth of a homogeneous point in one camera: the third
\* coordinate of its image and its own fourth coordinate have the same sign
InFront(P, v) == Depth(P, v) * v[3] > 0

\* the cheirality test of a candidate
Cheiral_firstCamera(c, v) == InFront(FirstCamera, v)

Cheiral(c, v) == InFront(FirstCamera, v) /\ InFront(CameraOf(c), v)

\* the outcomes the test of a candidate can have, over the solutions the
\* triangulation may return
Outcomes(c, x, x_) == {Cheiral(c, v) : v \in TriangulateUnder(c, x, x_)}

\* the correspondence is triangulated and tested under every candidate
PoseTriangulate ==
    /\ q_pc = "triangulate"
    /\ \E out \in {[c \in q_cands |-> Outcomes(c, q_x, q_x_)]} :
          \E ok \in [q_cands -> BOOLEAN] :
              /\ \A c \in q_cands : ok[c] \in out[c]
              /\ poseCall' = [poseCall EXCEPT
                                 !.tri = {[c |-> c, ok |-> ok[c]] : c \in q_cands},
                                 !.pc = "select"]
    /\ UNCHANGED <<mvars, pvars, rvars, tvars, evars, wvars>>

PoseSelect ==
    /\ q_pc = "select"
    /\ \E pass \in {{e.c : e \in {f \in q_tri : f.ok}}} :
          IF pass = {}
          THEN poseCall' = [poseCall EXCEPT !.pc = "thrown", !.err = "NumericalFailure"]
          ELSE \E c \in pass : poseCall' = [poseCall EXCEPT !.pc = "done", !.result = c]
    /\ UNCHANGED <<mvars, pvars, rvars, tvars, evars, wvars>>

(***************************************************************************)
(* Inputs.                                                                 *)
(***************************************************************************)
CostMatrices(R, C) == [Idx(R) -> [Idx(C) -> Costs]]

NoPipeline ==
    /\ p1 = << >>
    /\ p2 = << >>
    /\ P1 = << >>
    /\ P2 = << >>
    /\ fM = << >>
    /\ pc = "-"
    /\ i = 0
    /\ list = << >>
    /\ used = {}
    /\ prevList = << >>

NoRansac ==
    /\ r_obs = << >>
    /\ r_params = [setSize |-> 0, threshold |-> 0, maxIter |-> 0]
    /\ r_pc = "-"
    /\ r_iter = 0
    /\ r_sample = << >>
    /\ r_ok = FALSE
    /\ r_hyp = << >>
    /\ r_evals = 0
    /\ r_inl = {}
    /\ r_best = << >>
    /\ r_hist = << >>

\* no triangulation call
NoTri == triCall = << >>

\* none of the calls modelled besides the assignment, the pipeline and the
\* RANSAC engine
\* no epipolar distance asked for
NoMetric == epiCall = << >>

\* no pose asked for
NoPose == poseCall = << >>

\* estimatePosition3D_6D not called
NoWrapper == wrapCall = << >>

NoOthers == NoTri /\ NoMetric /\ NoPose /\ NoWrapper

FreshMunkres ==
    /\ m_cost = << >>
    /\ m_mask = << >>
    /\ m_rowCover = {}
    /\ m_colCover = {}
    /\ m_z0 = <<0, 0>>
    /\ matchList = << >>
    /\ haveMatch = FALSE

\* Munkres called directly on a cost matrix
InitAssign ==
    /\ mode = "assign"
    /\ m_rows \in 0 .. MaxDim
    /\ m_cols \in 0 .. MaxDim
    /\ m_rows * m_cols <= MaxCells
    /\ matrix \in CostMatrices(m_rows, m_cols)
    /\ m_step = "new"
    /\ FreshMunkres
    /\ run = 0
    /\ prevMatch = << >>
    /\ NoPipeline
    /\ NoRansac
    /\ NoOthers

\* image points, and camera pairs with their fundamental matrix: a
\* horizontal and a vertical unit baseline
PointSet == {Vec0(<<0, 0>>), Vec0(<<1, 1>>), Vec0(<<0, 2>>)}

PointLists == UNION {[Idx(n) -> PointSet] : n \in 0 .. MaxPts}

CamI == Mat0(<< <<1, 0, 0, 0>>, <<0, 1, 0, 0>>, <<0, 0, 1, 0>> >>)

CamH == Mat0(<< <<1, 0, 0, -1>>, <<0, 1, 0, 0>>, <<0, 0, 1, 0>> >>)

CamV == Mat0(<< <<1, 0, 0, 0>>, <<0, 1, 0, -1>>, <<0, 0, 1, 0>> >>)

FundH == Mat0(<< <<0, 0, 0>>, <<0, 0, -1>>, <<0, 1, 0>> >>)

FundV == Mat0(<< <<0, 0, 1>>, <<0, 0, 0>>, <<-1, 0, 0>> >>)

Setups == {<<CamI, CamH, FundH>>, <<CamI, CamV, FundV>>}

\* reconstruct3DPoints( p1, p2, P1, P2, fM )
InitPipeline ==
    /\ mode = "pipeline"
    /\ p1 \in PointLists
    /\ p2 \in PointLists
    /\ \E s \in Setups : P1 = s[1] /\ P2 = s[2] /\ fM = s[3]
    /\ pc = "build"
    /\ i = 0
    /\ list = << >>
    /\ used = {}
    /\ prevList = << >>
    /\ matrix = << >>
    /\ m_rows = 0
    /\ m_cols = 0
    /\ m_step = "-"
    /\ FreshMunkres
    /\ run = 0
    /\ prevMatch = << >>
    /\ NoRansac
    /\ NoOthers

\* a second call with the identical input (fresh locals, a fresh Munkres object)
Rerun ==
    /\ run = 0
    /\ \/ mode = "assign" /\ haveMatch
       \/ mode = "pipeline" /\ pc = "done"
    /\ run' = 1
    /\ prevMatch' = matchList
    /\ prevList' = list
    /\ matchList' = << >>
    /\ haveMatch' = FALSE
    /\ m_step' = IF mode = "assign" THEN "new" ELSE "-"
    /\ pc' = IF mode = "assign" THEN pc ELSE "build"
    /\ matrix' = IF mode = "assign" THEN matrix ELSE << >>
    /\ m_rows' = IF mode = "assign" THEN m_rows ELSE 0
    /\ m_cols' = IF mode = "assign" THEN m_cols ELSE 0
    /\ m_cost' = << >>
    /\ m_mask' = << >>
    /\ m_rowCover' = {}
    /\ m_colCover' = {}
    /\ m_z0' = <<0, 0>>
    /\ i' = 0
    /\ list' = << >>
    /\ used' = {}
    /\ UNCHANGED <<mode, inputs, rvars, ovars>>

\* tool poses, and the parameters of a ransac call
PoseSet == {[s |-> 1, t |-> 0], [s |-> 1, t |-> 2], [s |-> -1, t |-> 0], [s |-> -1, t |-> 2]}

\* the engine treats the observations alike, whatever their order, so the
\* lists are enumerated up to reordering
PoseKey(p) == 2 * p.t + (IF p.s = 1 THEN 0 ELSE 1)

PoseLists ==
    UNION {{l \in [Idx(n) -> PoseSet] :
                \A j \in Idx(n - 1) : PoseKey(l[j]) <= PoseKey(l[j + 1])} : n \in 0 .. MaxObs}

SetSizes == {1, 2}

Thresholds == {0, 1, 3}

\* what an uninitialised Math::Vector< double, 6 > may hold
Uninitialised == {Vec0(<<7, 7, 7, 7, 7, 7>>)}

\* what pw and pm hold when estimatePosition3D_6D is called
CallerValue == Vec0(<<9, 9, 9>>)

\* estimatePosition3D_6D( pw, poses, pm, params ) up to its call of
\* ransac( poses.begin(), poses.end(), resultVector, ToolTip::Ransac< double >(), params )
InitRansac ==
    /\ mode = "ransac"
    /\ r_obs \in PoseLists
    /\ r_params \in [setSize : SetSizes, threshold : Thresholds, maxIter : 0 .. MaxIter]
    /\ r_pc = "draw"
    /\ r_iter = 0
    /\ r_sample = << >>
    /\ r_ok = FALSE
    /\ r_hyp \in Uninitialised
    /\ r_evals = 0
    /\ r_inl = {}
    /\ r_best \in [model : Uninitialised, inliers : {{}}, count : {0}, assigned : {FALSE}]
    /\ r_hist = << >>
    /\ matrix = << >>
    /\ m_rows = 0
    /\ m_cols = 0
    /\ m_step = "-"
    /\ FreshMunkres
    /\ run = 0
    /\ prevMatch = << >>
    /\ NoPipeline
    /\ NoTri
    /\ NoMetric
    /\ NoPose
    /\ wrapCall = [pc |-> "running", rv |-> << >>, pw |-> CallerValue, pm |-> CallerValue,
                    ret |-> FALSE]

NextRansac ==
    \/ RansacDraw
    \/ RansacNoSample
    \/ RansacEstimate
    \/ RansacEvaluate
    \/ RansacUpdate
    \/ RansacSkip
    \/ RansacFinish

SpecRansac == InitRansac /\ [][NextRansac]_vars

\* the engine is a plain loop: it keeps running until it returns
SpecRansacFair == SpecRansac /\ WF_vars(NextRansac)

\* the engine inside estimatePosition3D_6D, and the return of the wrapper
NextWrapper ==
    \/ NextRansac
    \/ WrapperReturn

SpecWrapper == InitRansac /\ [][NextWrapper]_vars

\* no assignment problem in hand
NoMunkres ==
    /\ matrix = << >>
    /\ m_rows = 0
    /\ m_cols = 0
    /\ m_step = "-"
    /\ FreshMunkres
    /\ run = 0
    /\ prevMatch = << >>

\* a camera that looks back along the z axis from ( 0, 0, 1 )
CamB == Mat0(<< <<-1, 0, 0, 0>>, <<0, 1, 0, 0>>, <<0, 0, -1, 1>> >>)

TriCameras == {CamI, CamH, CamV, CamB}

\* scene points, in front of and behind the cameras
ScenePts ==
    {Vec0(<<0, 0, 1>>), Vec0(<<1, 0, 1>>), Vec0(<<0, 1, 1>>), Vec0(<<0, 0, -1>>),
     Vec0(<<1, 1, -1>>), Vec0(<<0, 0, 2>>)}

\* the scene point has an image with whole coordinates in the camera
Visible(P, X) ==
    /\ ImageW(P, X) # 0
    /\ \A k \in Idx(2) :
          (P[k][0] * X[0] + P[k][1] * X[1] + P[k][2] * X[2] + P[k][3])
              % Max2(ImageW(P, X), -ImageW(P, X)) = 0

TriFlags == {0, 1, 2}

\* a call of one of the triangulation entry points: n projection matrices
\* and the images of one scene point in the first m of the cameras
InitTri ==
    /\ mode = "triangulate"
    /\ \E entry \in {"two", "nview", "residual"}, cams \in [Idx(MaxViews) -> TriCameras],
          X \in ScenePts, n, m \in 0 .. MaxViews :
          /\ \A j \in Idx(MaxViews) : Visible(cams[j], X)
          /\ entry = "two" => n = 2 /\ m = 2
          /\ \E flag \in (IF entry = "two" THEN {0} ELSE TriFlags),
                pRes \in (IF entry = "residual" THEN BOOLEAN ELSE {FALSE}) :
                triCall = [entry |-> entry,
                           P |-> [j \in Idx(n) |-> cams[j]],
                           pts |-> [j \in Idx(m) |-> Project(cams[j], X)],
                           flag |-> flag,
                           pRes |-> pRes,
                           pc |-> "entry",
                           A |-> << >>,
                           info |-> 0,
                           vec |-> << >>,
                           scan |-> 0,
                           dlt |-> << >>,
                           result |-> << >>,
                           residual |-> [written |-> FALSE],
                           err |-> "",
                           log |-> << >>]
    /\ NoMunkres
    /\ NoPipeline
    /\ NoRansac
    /\ NoMetric
    /\ NoPose
    /\ NoWrapper

NextTri ==
    \/ TriEntry
    \/ TriCheckN
    \/ TriBuild
    \/ TriSvd
    \/ TriSign
    \/ TriDehom
    \/ TriGate
    \/ TriRefine

SpecTri == InitTri /\ [][NextTri]_vars

\* largest coordinate of an image point of the epipolar distance
MaxPix == 2

PixPoints == [Idx(2) -> -1 .. MaxPix]

\* rows of the fundamental matrices of the epipolar distance
FundRows ==
    {Vec0(<<0, 0, 0>>), Vec0(<<1, 0, 0>>), Vec0(<<0, 1, -1>>), Vec0(<<-1, 1, 0>>),
     Vec0(<<0, 0, 1>>), Vec0(<<1, -1, 2>>)}

\* pointToPointDist( from, to, fM ) and EvaluateFundamentalMatrix()( fM, from, to )
InitMetric ==
    /\ mode = "metric"
    /\ epiCall \in [fM : [Idx(3) -> FundRows], from : PixPoints, to : PixPoints,
                     pc : {"call"}, cost : {<< >>}, eval : {<< >>}]
    /\ NoMunkres
    /\ NoPipeline
    /\ NoRansac
    /\ NoTri
    /\ NoPose
    /\ NoWrapper

NextMetric == Measure

SpecMetric == InitMetric /\ [][NextMetric]_vars

\* homogeneous scene points: in front of the first camera, behind it, and
\* one at infinity
PoseScenes ==
    {Vec0(<<0, 0, 1, 1>>), Vec0(<<1, 0, 1, 1>>), Vec0(<<0, 1, 1, 1>>), Vec0(<<1, 1, 1, 1>>),
     Vec0(<<0, 0, -1, 1>>), Vec0(<<1, 0, -1, 1>>), Vec0(<<0, 0, 1, 0>>), Vec0(<<1, 1, 1, 0>>)}

\* the image of a homogeneous scene point where it has whole coordinates
HasImage(P, v) ==
    /\ Depth(P, v) # 0
    /\ \A k \in Idx(2) :
          (P[k][0] * v[0] + P[k][1] * v[1] + P[k][2] * v[2] + P[k][3] * v[3])
              % Max2(Depth(P, v), -Depth(P, v)) = 0

ImageOf(P, v) ==
    [k \in Idx(2) |->
        (P[k][0] * v[0] + P[k][1] * v[1] + P[k][2] * v[2] + P[k][3] * v[3]) \div Depth(P, v)]

\* poseFromFundamentalMatrix( fM, x, x_, K1, K2 ) with K1 = K2 = 1, on the
\* fundamental matrix of a pose and the two images of a scene point
InitPose ==
    /\ mode = "pose"
    /\ \E truth \in [R : Rotations, t : UnitAxes, X : PoseScenes] :
          /\ HasImage(FirstCamera, truth.X)
          /\ HasImage(CameraOf(truth), truth.X)
          /\ poseCall = [fM |-> EssentialOf(truth.R, truth.t),
                          x |-> ImageOf(FirstCamera, truth.X),
                          x_ |-> ImageOf(CameraOf(truth), truth.X),
                          pc |-> "decode",
                          cands |-> {},
                          tri |-> {},
                          result |-> << >>,
                          err |-> "",
                          truth |-> truth]
    /\ NoMunkres
    /\ NoPipeline
    /\ NoRansac
    /\ NoTri
    /\ NoMetric
    /\ NoWrapper

NextPose ==
    \/ PoseDecode
    \/ PoseTriangulate
    \/ PoseSelect

SpecPose == InitPose /\ [][NextPose]_vars

Init == InitAssign \/ InitPipeline

Next ==
    \/ BuildMatrix
    \/ MunkresSolve
    \/ GetRowMatchList
    \/ Collect
    \/ Return
    \/ Rerun

Spec == Init /\ [][Next]_vars

(***************************************************************************)
(* Properties.                                                             *)
(***************************************************************************)
Injective(f) == \A a, b \in DOMAIN f : a # b => f[a] # f[b]

RECURSIVE SumCells(_, _)
SumCells(mat, cells) ==
    IF cells = {} THEN 0
    ELSE LET z == CHOOSE z \in cells : TRUE
         IN  mat[z[1]][z[2]] + SumCells(mat, cells \ {z})

\* the matchings of min(R, C) rows to distinct real columns
Matchings(R, C) ==
    IF R <= C
    THEN {{<<r, f[r]>> : r \in Idx(R)} : f \in {g \in [Idx(R) -> Idx(C)] : Injective(g)}}
    ELSE {{<<f[c], c>> : c \in Idx(C)} : f \in {g \in [Idx(C) -> Idx(R)] : Injective(g)}}

\* brute force: the least total cost of a matching of min(R, C) real pairs
MinMatchCost(mat, R, C) == SetMin({SumCells(mat, mm) : mm \in Matchings(R, C)})

\* the rows with a real column, and the cells the assignment selects
RealRows == {r \in Idx(m_rows) : matchList[r] < m_cols}

Selected == {<<r, matchList[r]>> : r \in RealRows}

\* the rows the pipeline's test (line 258) takes as matched, with their columns
Consumed == {<<r, matchList[r]>> : r \in {k \in Idx(m_rows) : IsMatched(matchList, k, m_cols)}}

RECURSIVE ExpectedList(_)
ExpectedList(k) ==
    IF k = 0 THEN << >>
    ELSE IF matchList[k - 1] < p2Size
         THEN Append(ExpectedList(k - 1),
                     get3DPosition(P1, P2, p1[k - 1], p2[matchList[k - 1]]))
         ELSE ExpectedList(k - 1)

\* C1: reconstruct3DPoints returns (no exception leaves it), and what it
\* returns is the sequence got by walking the rows 0..|p1|-1 in increasing
\* order and appending get3DPosition(P1, P2, p1[i], p2[matchList[i]]) for
\* every row with matchList[i] < |p2|; rows without a match add nothing, so
\* the length is the number of matched rows, at most min(|p1|, |p2|), and
\* the output is empty when either input is empty.  During the loop the
\* list is the expected list of the rows walked so far.
C1_ReconstructOutput ==
    /\ pc # "out_of_range"
    /\ pc = "collect" => list = ExpectedList(i)
    /\ pc = "done" =>
        /\ list = ExpectedList(p1Size)
        /\ Len(list) = Cardinality({r \in Idx(p1Size) : matchList[r] < p2Size})
        /\ Len(list) <= Min2(p1Size, p2Size)
        /\ (p1Size = 0 \/ p2Size = 0) => list = << >>

\* C1 witness: a finished call that triangulated two different pairs, left a
\* row of p1 out, and matched some row to a column other than its own index
C1_Witness ==
    /\ pc = "done"
    /\ Len(list) = 2
    /\ list[1] # list[2]
    /\ p1Size = 3
    /\ \E r \in Idx(p1Size) : matchList[r] < p2Size /\ matchList[r] # r

\* C2: once the assignment is taken, every row has exactly one entry, the
\* rows the pipeline takes as matched go to real columns (< C), no real
\* column is the match of two rows, at most min(R, C) rows are matched, and
\* no point of p2 was triangulated with two different points of p1.
C2_PartialInjection ==
    haveMatch =>
        /\ DOMAIN matchList = Idx(m_rows)
        /\ \A r \in Idx(m_rows) : matchList[r] \in Nat
        /\ \A z \in Consumed : z[2] \in Idx(m_cols)
        /\ \A y, z \in Consumed : y[2] = z[2] => y[1] = z[1]
        /\ \A r, q \in Idx(m_rows) :
              (r # q /\ matchList[r] < m_cols /\ matchList[q] < m_cols)
                 => matchList[r] # matchList[q]
        /\ Cardinality(Consumed) <= Min2(m_rows, m_cols)
        /\ \A y, z \in used : y[2] = z[2] => y[1] = z[1]
        /\ used \subseteq Consumed

\* C2 witness: a pipeline call with more rows than columns that triangulated
\* two pairs and left a row unmatched
C2_Witness ==
    /\ mode = "pipeline"
    /\ pc = "done"
    /\ m_rows = 3
    /\ m_cols = 2
    /\ Cardinality(used) = 2
    /\ \E r \in Idx(m_rows) : matchList[r] >= m_cols

\* C3: for a square cost matrix the total cost of the selected entries is
\* the least total cost over all bijections between rows and columns.
C3_SquareOptimal ==
    (haveMatch /\ m_rows = m_cols) =>
        /\ Cardinality(Selected) = m_rows
        /\ SumCells(matrix, Selected) = MinMatchCost(matrix, m_rows, m_cols)

\* C3 witness: a solved 3 x 3 matrix whose optimum is positive and is not
\* reached by taking each row's first minimum (the dual adjustment of step 6
\* and an augmentation were needed)
C3_Witness ==
    /\ haveMatch
    /\ m_rows = 3
    /\ m_cols = 3
    /\ SumCells(matrix, Selected) > 0
    /\ \E r \in Idx(3) : matrix[r][matchList[r]] > RowMin(matrix, r, 3)
    /\ \E r \in Idx(3) : matchList[r] # r

\* C4: for a rectangular cost matrix exactly min(R, C) rows are matched to
\* real columns, the matched pairs are a least-cost matching of that size
\* over the real entries, and a row is reported unmatched (fails the test of
\* line 258) exactly when its star lies in the padded region (column >= C);
\* real costs may be below, equal to or above the padding constant.
C4_PaddingNeutral ==
    (haveMatch /\ m_rows # m_cols) =>
        /\ Cardinality(Consumed) = Min2(m_rows, m_cols)
        /\ Consumed = Selected
        /\ SumCells(matrix, Consumed) = MinMatchCost(matrix, m_rows, m_cols)
        /\ \A r \in Idx(m_rows) :
              ~IsMatched(matchList, r, m_cols) <=> StarColOfRow(m_mask, MSize, r) >= m_cols

\* C4 witness: a solved 3 x 2 matrix in which a selected real cost exceeds
\* the padding constant and the row left unmatched is not the last one
C4_Witness ==
    /\ haveMatch
    /\ m_rows = 3
    /\ m_cols = 2
    /\ \E z \in Selected : matrix[z[1]][z[2]] > PadCost
    /\ matchList[0] >= m_cols

ModelDist2(model, p) ==
    LET dx == model[0] - (p.s * model[3] + p.t)
        dy == model[1] - p.s * model[4]
        dz == model[2] - model[5]
    IN  dx * dx + dy * dy + dz * dz

\* the observations of the full set within the threshold of a model
Consensus(model) ==
    {j \in DOMAIN r_obs :
        ModelDist2(model, r_obs[j]) < r_params.threshold * r_params.threshold}

Iterations == 1 .. Len(r_hist)

OkIterations == {k \in Iterations : r_hist[k].ok}

\* a model that solves pose * pm = pw exactly on setSize observations that
\* determine it
IsMinimalFit(model) ==
    \E S \in SUBSET DOMAIN r_obs :
        /\ Cardinality(S) = r_params.setSize
        /\ \E a, b \in S : r_obs[a].s # r_obs[b].s
        /\ \A j \in S : ModelDist2(model, r_obs[j]) = 0

GoodSample(sq) ==
    /\ DOMAIN sq = Idx(r_params.setSize)
    /\ \A j \in DOMAIN sq : sq[j] \in Idx(r_n)
    /\ \A a, b \in DOMAIN sq : a # b => sq[a] # sq[b]

\* C6: when the engine has finished, the returned inlier count is the
\* largest, over the iterations whose sample was not degenerate, of the
\* number of observations of the full set whose distance to that
\* iteration's model is below the threshold (0 when there was none).  In
\* every iteration the best result is replaced only if the iteration's
\* inlier count strictly exceeds the best count so far, and then takes that
\* count; so the stored best count never decreases from one iteration to
\* the next.
C6_BestCount ==
    /\ \A k \in Iterations :
          /\ r_hist[k].after.count >= r_hist[k].before.count
          /\ r_hist[k].after # r_hist[k].before =>
                /\ r_hist[k].ok
                /\ Cardinality(Consensus(r_hist[k].model)) > r_hist[k].before.count
                /\ r_hist[k].after.count = Cardinality(Consensus(r_hist[k].model))
          /\ k > 1 => r_hist[k].before = r_hist[k - 1].after
    /\ Len(r_hist) > 0 => r_best = r_hist[Len(r_hist)].after
    /\ r_pc = "done" =>
          r_best.count =
             SetMax({Cardinality(Consensus(r_hist[k].model)) : k \in OkIterations} \cup {0})

\* C6 witness: a finished run in which the best result was replaced twice,
\* by a larger count each time, and a later iteration with a valid model of
\* fewer inliers left it alone
C6_Witness ==
    /\ r_pc = "done"
    /\ Len(r_hist) = 3
    /\ \A k \in Iterations : r_hist[k].ok
    /\ r_hist[1].after.count > 0
    /\ r_hist[2].after.count > r_hist[1].after.count
    /\ Cardinality(Consensus(r_hist[3].model)) \in 1 .. r_hist[2].after.count - 1
    /\ r_best.count = r_hist[2].after.count

C8_ExactlyMaxIter ==
    /\ <>(r_pc = "done")
    /\ [](r_pc = "done" => r_iter = r_params.maxIter /\ Len(r_hist) = r_params.maxIter)

\* C8 witness: a finished run of the largest iteration cap whose first
\* iteration made every observation an inlier and one of whose later
\* iterations was skipped as degenerate
C8_Witness ==
    /\ r_pc = "done"
    /\ r_params.maxIter = MaxIter
    /\ Len(r_hist) = MaxIter
    /\ r_n >= 3
    /\ r_hist[1].after.count = r_n
    /\ \E k \in Iterations : ~r_hist[k].ok

\* C9: an iteration whose sample the Estimator reports degenerate is
\* skipped: the Evaluator is not invoked in it and it leaves the best
\* result as it was; the engine has no error outcome, and a run all of
\* whose iterations are degenerate finishes with inlier count 0.
C9_DegenerateSkipped ==
    /\ \A k \in Iterations :
          ~r_hist[k].ok => r_hist[k].evals = 0 /\ r_hist[k].after = r_hist[k].before
    /\ r_pc = "skip" => ~r_ok /\ r_evals = 0
    /\ r_pc \in {"evaluate", "update"} => r_ok
    /\ mode = "ransac" => r_pc \in {"draw", "estimate", "evaluate", "update", "skip", "done"}
    /\ (r_pc = "done" /\ OkIterations = {}) => r_best.count = 0 /\ r_best.inliers = {}

\* C9 witness: a finished run on samples of two poses in which an iteration
\* was skipped as degenerate after an earlier one had found a model with
\* inliers, and a later one found a better model
C9_Witness ==
    /\ r_pc = "done"
    /\ r_params.setSize = 2
    /\ Len(r_hist) = 3
    /\ r_hist[1].ok
    /\ r_hist[1].after.count > 0
    /\ ~r_hist[2].ok
    /\ r_hist[2].after = r_hist[1].after
    /\ r_hist[3].ok
    /\ r_hist[3].after.count > r_hist[2].after.count

CallsOf(name) == {k \in 1 .. Len(t_log) : t_log[k].call = name}

OnLists == t_entry \in {"nview", "residual"}

Ended == t_pc \in {"done", "thrown"}

\* C11: a call of the N-view triangulation with fewer than two projection
\* matrices, or with a number of matrices that differs from the number of
\* image points, never gets past the tests on its input: no matrix is built,
\* no SVD is run, no sign is checked, nothing is refined, no point is
\* returned, and when it ends it has thrown one of the two input errors.
C11_InvalidInput ==
    (OnLists /\ (NumViews < 2 \/ NumViews # NumPoints)) =>
        /\ t_pc \in {"entry", "impl", "thrown"}
        /\ t_log = << >>
        /\ t_A = << >>
        /\ t_vec = << >>
        /\ t_result = << >>
        /\ t_pc = "thrown" => t_err = (IF NumViews # NumPoints THEN ErrSizes ELSE ErrViews)

\* a call with one matrix and one point has thrown
C11_Witness ==
    /\ OnLists
    /\ NumViews = 1
    /\ NumPoints = 1
    /\ t_pc = "thrown"
    /\ t_err = ErrViews

\* C12: whenever gesvd reports non-convergence, the entry point ends thrown
\* with the SVD error and without a point: no result is computed from the
\* output of a failed SVD.  (The two-view get3DPosition does not look at the
\* return code and returns Vt( 3, . ) / Vt( 3, 3 ) all the same.)
C12_SvdFailureThrows ==
    (t_pc \notin {"-", "entry", "impl", "build", "svd"} /\ t_info # 0) =>
        /\ t_pc = "thrown"
        /\ t_err = ErrSvd
        /\ t_dlt = << >>
        /\ t_result = << >>

\* the homogeneous form ( X, Y, Z, 1 ) of a point
Hom(X) == [k \in Idx(4) |-> IF k < 3 THEN X[k] ELSE 1]

\* C13: the point the N-view get3DPosition returns from the linear solve has
\* positive projective depth in every camera of the call.  (The division by
\* the fourth component undoes the negation, so a point behind a camera is
\* returned as it is.)
C13_PositiveDepth ==
    (OnLists /\ t_pc = "done" /\ t_result.by = "dlt") =>
        \A j \in DOMAIN t_P : Depth(t_P[j], Hom(t_result.pt)) > 0

\* C14: when get3DPositionWithResidual is given a residual output and
\* returns, the output has been written, whatever the flag.  (With flag = 0
\* optimize3DPositionImpl, the only writer, is not called.)
C14_ResidualWritten ==
    (t_entry = "residual" /\ t_pRes /\ t_pc = "done") => t_residual.written

\* C18: on return of the N-view entry points, with flag = 0 the result is
\* exactly the point of the linear solve and levenbergMarquardt was never
\* called; with flag > 0 levenbergMarquardt was called exactly once, after
\* gesvd, started from the point of the linear solve with at most 200
\* iterations and tolerance 1e-6, and its output is the result.
C18_RefineGate ==
    (OnLists /\ t_pc = "done") =>
        IF t_flag = 0
        THEN /\ CallsOf("levenbergMarquardt") = {}
             /\ t_result.by = "dlt"
             /\ t_result.pt = t_dlt
        ELSE /\ Cardinality(CallsOf("levenbergMarquardt")) = 1
             /\ Cardinality(CallsOf("gesvd")) = 1
             /\ \A k \in CallsOf("levenbergMarquardt") :
                   /\ \A g \in CallsOf("gesvd") : g < k
                   /\ t_log[k].init = t_dlt
                   /\ t_log[k].maxIter = 200
                   /\ t_log[k].tol = "1e-6"
             /\ t_result.by = "lm"
             /\ t_result.pt = levenbergMarquardt(t_P, t_pts, t_dlt).parameters

\* a refined call has returned
C18_Witness ==
    /\ OnLists
    /\ t_pc = "done"
    /\ t_flag = 2
    /\ Cardinality(CallsOf("levenbergMarquardt")) = 1
    /\ t_result.by = "lm"

\* C19: the sign loop negates the solution at most once per call: at the
\* first camera, in input order, whose third row gives a negative value on
\* the vector gesvd returned, where the scan stops; without a negation no
\* camera gave a negative value.  The point returned by the linear solve is
\* the same for the vector and for its negation, because each is divided by
\* its own fourth component.
C19_NegateOnce ==
    OnLists =>
        /\ Cardinality(CallsOf("negate")) <= 1
        /\ \A k \in CallsOf("negate") :
              /\ t_pc # "sign"
              /\ t_scan = t_log[k].at + 1
              /\ Depth(t_P[t_log[k].at], [c \in Idx(4) |-> -t_vec[c]]) < 0
              /\ \A j \in Idx(t_log[k].at) : Depth(t_P[j], [c \in Idx(4) |-> -t_vec[c]]) >= 0
        /\ (CallsOf("negate") = {} /\ t_pc \in {"dehom", "gate", "refine", "done"}) =>
              \A j \in DOMAIN t_P : Depth(t_P[j], t_vec) >= 0
        /\ t_pc \in {"gate", "refine", "done"} =>
              /\ t_dlt = [c \in Idx(3) |-> t_vec[c] \div t_vec[3]]
              /\ t_dlt = [c \in Idx(3) |-> (-t_vec[c]) \div (-t_vec[3])]

\* a call has returned after a negation at the second camera
C19_Witness ==
    /\ OnLists
    /\ t_pc = "done"
    /\ \E k \in CallsOf("negate") : t_log[k].at = 1

(***************************************************************************)
(* Properties of the epipolar distance.                                    *)
(***************************************************************************)
\* ( a, b, c ) = F * ( from, 1 )
LineOf(F, from) == [k \in Idx(3) |-> F[k][0] * from[0] + F[k][1] * from[1] + F[k][2]]

\* C15: for every F, from and to, pointToPointDist( from, to, F ) and
\* EvaluateFundamentalMatrix( F, from, to ) are the same value, and with
\* ( a, b, c ) = F * ( from, 1 ) and a^2 + b^2 > 0 that value is
\* ( a x' + b y' + c )^2 / ( a^2 + b^2 ), which is not negative; where the
\* quotient is a whole number it is what pointToPointDist puts in the cost
\* matrix.
C15_SameMetric ==
    e_pc = "done" =>
        LET l == LineOf(e_fM, e_from)
            sq == (l[0] * e_to[0] + l[1] * e_to[1] + l[2]) * (l[0] * e_to[0] + l[1] * e_to[1] + l[2])
            nn == l[0] * l[0] + l[1] * l[1]
        IN  /\ e_cost = e_eval
            /\ nn > 0 =>
                  /\ e_eval.class = "finite"
                  /\ e_eval.n * nn = sq * e_eval.d
                  /\ e_eval.d > 0
                  /\ e_eval.n >= 0
                  /\ e_eval.d = 1 => pointToPointDist(e_from, e_to, e_fM) = e_eval.n
            /\ nn = 0 => e_eval.class \in {"nan", "inf"}

\* the distance of a point off its epipolar line has been measured, for a
\* matrix that is not symmetric in its two points
C15_Witness ==
    /\ e_pc = "done"
    /\ e_eval.class = "finite"
    /\ e_eval.n > 0
    /\ e_eval.d > 1
    /\ EvaluateFundamentalMatrix(e_fM, e_to, e_from) # e_eval

(***************************************************************************)
(* Properties of the pose recovery.                                        *)
(***************************************************************************)
\* the candidates whose test came out positive
Passing == {e.c : e \in {f \in q_tri : f.ok}}

Tested == q_pc \in {"select", "done", "thrown"}

\* two rotations times a translation and its negative
TwoByTwo(cands) ==
    /\ Cardinality(cands) = 4
    /\ Cardinality({c.R : c \in cands}) = 2
    /\ \E t \in UnitAxes : {c.t : c \in cands} = {t, [k \in Idx(3) |-> -t[k]]}
    /\ cands = [R : {c.R : c \in cands}, t : {c.t : c \in cands}]

\* the input was made from a scene point at finite distance in front of
\* both cameras
CorrectCorrespondence ==
    /\ q_truth.X[3] # 0
    /\ Depth(FirstCamera, q_truth.X) * q_truth.X[3] > 0
    /\ Depth(CameraOf(q_truth), q_truth.X) * q_truth.X[3] > 0

\* the centre of the second camera: - R^t t
SecondCentre == [k \in Idx(3) |-> -(q_truth.R[0][k] * q_truth.t[0] + q_truth.R[1][k] * q_truth.t[1]
                                      + q_truth.R[2][k] * q_truth.t[2])]

\* the scene point is off the line through the two camera centres, so the
\* two rays differ and meet in one point
OffBaseline ==
    \E j, k \in Idx(3) : q_truth.X[j] * SecondCentre[k] # q_truth.X[k] * SecondCentre[j]

\* what holds of every call: four candidates, the returned one passed the
\* test, and a failure exactly when none passed
PoseContract ==
    /\ q_pc \notin {"-", "decode"} => TwoByTwo(q_cands)
    /\ Tested => {e.c : e \in q_tri} = q_cands
    /\ q_pc = "done" =>
          /\ q_result \in Passing
          /\ \E v \in TriangulateUnder(q_result, q_x, q_x_) :
                /\ Depth(FirstCamera, v) * v[3] > 0
                /\ Depth(CameraOf(q_result), v) * v[3] > 0
    /\ q_pc = "thrown" => Passing = {} /\ q_err = "NumericalFailure" /\ q_result = << >>
    /\ (Tested /\ q_pc # "select" /\ Passing = {}) => q_pc = "thrown"

C17_WitnessFailure ==
    /\ q_pc = "thrown"
    /\ q_err = "NumericalFailure"
    /\ Cardinality(q_cands) = 4

(***************************************************************************)
(* Properties of estimatePosition3D_6D.                                    *)
(***************************************************************************)
\* C20: estimatePosition3D_6D returns true exactly when the count ransac
\* reported is greater than 0, and on return pw and pm hold the first and
\* the last three components of resultVector in every case: the winning
\* model when one was assigned, and whatever the never assigned vector
\* holds when the count is 0.
C20_WrapperReturn ==
    /\ w_pc = "returned" =>
          /\ r_pc = "done"
          /\ w_ret <=> r_best.count > 0
          /\ w_pw = [k \in Idx(3) |-> w_rv[k]]
          /\ w_pm = [k \in Idx(3) |-> w_rv[k + 3]]
          /\ r_best.count > 0 => r_best.assigned /\ w_rv = r_best.model
          /\ r_best.count = 0 =>
                /\ ~r_best.assigned
                /\ \A k \in Iterations : ~r_hist[k].ok \/ r_hist[k].after.count = 0
                /\ w_rv \in Indeterminate
                /\ w_pw # CallerValue
                /\ w_pm # CallerValue
    /\ w_pc = "running" => w_pw = CallerValue /\ w_pm = CallerValue /\ ~w_ret

\* the wrapper returned false on observations none of whose samples gave a
\* model with an inlier, and pw and pm were overwritten all the same
C20_Witness ==
    /\ w_pc = "returned"
    /\ ~w_ret
    /\ r_n >= 2
    /\ Len(r_hist) >= 1
    /\ r_best.count = 0
    /\ w_pw = [k \in Idx(3) |-> 0]
    /\ w_pm = [k \in Idx(3) |-> 0]

\* the wrapper returned true with the winning model in pw and pm
C20_WitnessFound ==
    /\ w_pc = "returned"
    /\ w_ret
    /\ r_best.count >= 2
    /\ w_pw = [k \in Idx(3) |-> r_best.model[k]]

====
